---------------------------- MODULE Spec2Model ----------------------------
(***************************************************************************)
(* Model of the ingestion side of PMPipelineApp:                           *)
(* src/data_ingestion/kafka_consumer.py, class SensorDataConsumer and      *)
(* main().  The poll loop (start_consuming), the per-message handler       *)
(* (_process_message), the flush of one key (_save_buffer) and the flush   *)
(* of every key (_save_all_buffers) are translated statement by statement. *)
(* The Kafka bus, the wall clock and the file system are the environment:  *)
(* what poll() returns, whether DataFrame.to_csv raises, and when the      *)
(* clock advances are chosen nondeterministically.                         *)
(***************************************************************************)
EXTENDS Integers, Sequences, FiniteSets, TLC

(***************************************************************************)
(* Bounds of the model.                                                    *)
(***************************************************************************)
\* buffer_size (kafka_consumer.py:26 sets 100; the flush policy only compares
\* len(buffer) with it, so a small capacity exercises the same branches)
BufferSize == 2

\* number of poll() calls (driver) or handler calls (direct use) in one run
MaxPolls == 5

\* number of clock ticks in one run
MaxClock == 2

\* clock ticks per second: the file label has a resolution of one second,
\* the clock a finer one
TicksPerSecond == 2

(***************************************************************************)
(* Values.                                                                 *)
(***************************************************************************)
\* the equipment identities that occur in payloads
EquipmentIds == {"EQ-1", "EQ-2"}

\* the result of data.get('equipment_id') when the field is absent
None == "None"

\* a JSON value that is truthy but unhashable (a non-empty list or object)
Unhashable == "[1]"

\* the sets of keys whose to_csv call raises at one moment: none, or one key
Failures == {{}} \cup {{k} : k \in EquipmentIds}

\* values the equipment_id field of a decoded object may have
EidValues == EquipmentIds \cup {"", None, Unhashable}

\* msg.value(): the bytes are valid UTF-8 or not, the text is valid JSON or
\* not, the JSON value is an object or something else, and an object has the
\* equipment_id given (None when the field is absent).
Payloads ==
    {[utf8 |-> FALSE, json |-> FALSE, type |-> "none", eid |-> None],
     [utf8 |-> TRUE, json |-> FALSE, type |-> "none", eid |-> None],
     [utf8 |-> TRUE, json |-> TRUE, type |-> "array", eid |-> None],
     [utf8 |-> TRUE, json |-> TRUE, type |-> "null", eid |-> None]}
    \cup {[utf8 |-> TRUE, json |-> TRUE, type |-> "object", eid |-> e] : e \in EidValues}

VARIABLES
    pc,           \* control position of main()/start_consuming()
    running,      \* self.running
    data_buffer,  \* self.data_buffer: equipment id -> list of readings
    key_order,    \* insertion order of the keys of self.data_buffer
    files,        \* output_dir: file name -> readings written by to_csv
    calls,        \* every to_csv call made so far, in order (the FlushRecords)
    log,          \* what the last handler printed
    clock,        \* datetime.now(), in ticks
    polls,        \* poll() calls returned (driver) / handler calls (direct use)
    exc,          \* the exception propagating out of start_consuming, if any
    closed,       \* number of consumer.close() calls
    last,         \* the last operation performed and how it ended
    accepted,     \* history: accepted readings in arrival order
    sinceFlush,   \* history: per key, readings accepted since its last flush
    afterStop     \* history: messages handled after stop_consuming() was called

\* the simulator process (run_simulator.py, sensor_simulator.py)
VARIABLES
    simulators,   \* the SensorSimulator objects created so far, in order
    threads,      \* control position of the thread of each simulator
    mainpc,       \* control position of run_simulator.main()
    kafka,        \* args.kafka: a producer exists and publishing is enabled
    rng,          \* values drawn so far from the module-level random source
    emitted,      \* history: per simulator, the readings it has generated
    sent,         \* history: per simulator, the readings handed to produce()
    stopped,      \* history: simulators on which stop_simulation() was called
    ticks         \* generate_sensor_reading() calls made so far

simvars == <<simulators, threads, mainpc, kafka, rng, emitted, sent, stopped,
             ticks>>

vars == <<pc, running, data_buffer, key_order, files, calls, log, clock, polls,
          exc, closed, last, accepted, sinceFlush, afterStop, simvars>>


(***************************************************************************)
(* The consumer object as a value: the part of the state the handlers      *)
(* read and write.  raised is TRUE while an exception is propagating.      *)
(***************************************************************************)
Self ==
    [buf |-> data_buffer, order |-> key_order, files |-> files,
     calls |-> calls, log |-> <<>>, raised |-> FALSE]

\* datetime.now().strftime("%Y%m%d_%H%M%S"): the clock truncated to the second
Label(t) == t \div TicksPerSecond

\* f"{equipment_id}_{timestamp}.csv" under output_dir
Filename(equipment_id, t) == <<equipment_id, Label(t)>>

\* df.to_csv(filepath, index=False): creates the file, or replaces the file
\* of that name if there is one
to_csv(fs, filepath, df) ==
    [f \in DOMAIN fs \cup {filepath} |-> IF f = filepath THEN df ELSE fs[f]]

\* the FlushRecord of one to_csv call: key, readings, label, which path made
\* the call and whether the call returned (ok) or raised
FlushRecord(equipment_id, readings, t, by, ok) ==
    [key |-> equipment_id, readings |-> readings, label |-> Label(t),
     by |-> by, ok |-> ok]

\* save_buffer without the test of line 84 for an empty buffer
save_buffer_Unguarded(s, equipment_id, t, bad, by) ==
    IF equipment_id \in DOMAIN s.buf
    THEN LET df == s.buf[equipment_id]
             rec == FlushRecord(equipment_id, df, t, by, equipment_id \notin bad)
         IN  IF equipment_id \in bad
             THEN [s EXCEPT !.calls = Append(@, rec), !.raised = TRUE]
             ELSE [s EXCEPT !.calls = Append(@, rec),
                            !.files = to_csv(@, Filename(equipment_id, t), df),
                            !.log = Append(@, "saved"),
                            !.buf = [@ EXCEPT ![equipment_id] = <<>>]]
    ELSE s

\* _save_buffer(equipment_id).  bad is the set of keys whose to_csv raises at
\* this moment (unwritable path, full disk).  When to_csv raises, lines 95-98
\* are skipped: the buffer keeps its readings and the exception propagates.
save_buffer(s, equipment_id, t, bad, by) ==
    IF equipment_id \in DOMAIN s.buf /\ s.buf[equipment_id] # <<>>
    THEN LET df == s.buf[equipment_id]
             rec == FlushRecord(equipment_id, df, t, by, equipment_id \notin bad)
         IN  IF equipment_id \in bad
             THEN [s EXCEPT !.calls = Append(@, rec), !.raised = TRUE]
             ELSE [s EXCEPT !.calls = Append(@, rec),
                            !.files = to_csv(@, Filename(equipment_id, t), df),
                            !.log = Append(@, "saved"),
                            !.buf = [@ EXCEPT ![equipment_id] = <<>>]]
    ELSE s

\* _save_all_buffers(): _save_buffer for each key of list(data_buffer.keys()),
\* in dict (insertion) order; an exception ends the iteration.
RECURSIVE save_all_from(_, _, _, _)
save_all_from(s, order, t, bad) ==
    IF order = <<>> THEN s
    ELSE LET s1 == save_buffer(s, Head(order), t, bad, "all")
         IN  IF s1.raised THEN s1 ELSE save_all_from(s1, Tail(order), t, bad)

\* save_all_buffers visiting the keys from the newest to the oldest
save_all_buffers_Reversed(s, t, bad) ==
    save_all_from(s, [i \in 1..Len(s.order) |-> s.order[Len(s.order) + 1 - i]],
                  t, bad)

\* lines 100-103
save_all_buffers(s, t, bad) == save_all_from(s, s.order, t, bad)

\* Truthy as `equipment_id is not None`: an empty id passes
Truthy_IsNotNone(equipment_id) == equipment_id # None

\* Python truthiness of data.get('equipment_id'): None and "" are falsy
Truthy(equipment_id) == equipment_id \notin {None, ""}

\* the parsed JSON object stored in the buffer; seq stands for the rest of
\* the payload (timestamp, channels) and tells readings apart
Reading(msg) == [equipment_id |-> msg.value.eid, seq |-> msg.seq]

\* ingest with the capacity test written `>` instead of `>=`
ingest_OffByOne(s, equipment_id, data, t, bad) ==
    LET s1 == IF equipment_id \notin DOMAIN s.buf
              THEN [s EXCEPT !.buf = [k \in DOMAIN s.buf \cup {equipment_id} |->
                                         IF k = equipment_id THEN <<>> ELSE s.buf[k]],
                             !.order = Append(@, equipment_id)]
              ELSE s
        s2 == [s1 EXCEPT !.buf = [@ EXCEPT ![equipment_id] = Append(@, data)]]
        s3 == IF Len(s2.buf[equipment_id]) > BufferSize
              THEN save_buffer(s2, equipment_id, t, bad, "size")
              ELSE s2
    IN  IF s3.raised THEN s3 ELSE [s3 EXCEPT !.log = Append(@, "processed")]

\* lines 67-77: the buffer is created on the first reading of a key, the
\* reading appended, and a full buffer saved
ingest(s, equipment_id, data, t, bad) ==
    LET s1 == IF equipment_id \notin DOMAIN s.buf
              THEN [s EXCEPT !.buf = [k \in DOMAIN s.buf \cup {equipment_id} |->
                                         IF k = equipment_id THEN <<>> ELSE s.buf[k]],
                             !.order = Append(@, equipment_id)]
              ELSE s
        s2 == [s1 EXCEPT !.buf = [@ EXCEPT ![equipment_id] = Append(@, data)]]
        s3 == IF Len(s2.buf[equipment_id]) >= BufferSize
              THEN save_buffer(s2, equipment_id, t, bad, "size")
              ELSE s2
    IN  IF s3.raised THEN s3 ELSE [s3 EXCEPT !.log = Append(@, "processed")]

\* the try block of _process_message (lines 59-77): decode('utf-8') raises on
\* invalid bytes, json.loads on invalid JSON, data.get on a value that is not
\* an object, and `equipment_id not in self.data_buffer` on an unhashable id
\* (raised = TRUE); a falsy id skips the if-body without a print.
process_body(s, msg, t, bad) ==
    IF ~msg.value.utf8 THEN [s EXCEPT !.raised = TRUE]
    ELSE IF ~msg.value.json THEN [s EXCEPT !.raised = TRUE]
    ELSE IF msg.value.type # "object" THEN [s EXCEPT !.raised = TRUE]
    ELSE LET equipment_id == msg.value.eid
         IN  IF ~Truthy(equipment_id) THEN s
             ELSE IF equipment_id = Unhashable THEN [s EXCEPT !.raised = TRUE]
             ELSE ingest(s, equipment_id, Reading(msg), t, bad)

\* _process_message(msg): `except Exception` (lines 79-80) prints and swallows
\* whatever the try block raised
process_message(s, msg, t, bad) ==
    LET s1 == process_body(s, msg, t, bad)
    IN  IF s1.raised
        THEN [s1 EXCEPT !.raised = FALSE, !.log = Append(@, "error_processing")]
        ELSE s1

(***************************************************************************)
(* History variables.                                                      *)
(***************************************************************************)
\* a payload that decodes to an object carrying an equipment identity
Accepted(payload) ==
    payload.utf8 /\ payload.json /\ payload.type = "object"
    /\ payload.eid \in EquipmentIds

\* keys for which the step from calls to cs made a to_csv call
Flushed(cs) == {cs[i].key : i \in (Len(calls) + 1)..Len(cs)}

\* history after a handler was given msg and left the call list as cs
Remember(msg, cs) ==
    /\ accepted' = IF Accepted(msg.value) THEN Append(accepted, Reading(msg))
                   ELSE accepted
    /\ sinceFlush' = [k \in EquipmentIds |->
                        IF k \in Flushed(cs) THEN 0
                        ELSE IF Accepted(msg.value) /\ msg.value.eid = k
                             THEN sinceFlush[k] + 1
                             ELSE sinceFlush[k]]

\* history after a flush that handled no message
RememberFlush(cs) ==
    /\ accepted' = accepted
    /\ sinceFlush' = [k \in EquipmentIds |->
                        IF k \in Flushed(cs) THEN 0 ELSE sinceFlush[k]]

\* the handlers' result written back to the object
Store(s) ==
    /\ data_buffer' = s.buf
    /\ key_order' = s.order
    /\ files' = s.files
    /\ calls' = s.calls
    /\ log' = s.log

(***************************************************************************)
(* Initial state: __init__ has run (lines 13-26), main() is about to call  *)
(* start_consuming().                                                      *)
(***************************************************************************)
Constructed ==
    /\ pc = "idle"
    /\ running = FALSE
    /\ data_buffer = <<>>
    /\ key_order = <<>>
    /\ files = <<>>
    /\ calls = <<>>
    /\ log = <<>>
    /\ clock = 0
    /\ polls = 0
    /\ exc = "none"
    /\ closed = 0
    /\ last = <<"init", "ok">>
    /\ accepted = <<>>
    /\ sinceFlush = [k \in EquipmentIds |-> 0]
    /\ afterStop = 0

\* the simulator process has not been started
NoSimulator ==
    /\ simulators = <<>>
    /\ threads = <<>>
    /\ mainpc = "none"
    /\ kafka = FALSE
    /\ rng = 0
    /\ emitted = <<>>
    /\ sent = <<>>
    /\ stopped = {}
    /\ ticks = 0

Init == Constructed /\ NoSimulator

\* the wall clock advances
Tick ==
    /\ clock < MaxClock
    /\ pc # "exit"
    /\ clock' = clock + 1
    /\ UNCHANGED simvars
    /\ UNCHANGED <<pc, running, data_buffer, key_order, files, calls, log, polls,
                   exc, closed, last, accepted, sinceFlush, afterStop>>

(***************************************************************************)
(* The Consumption Driver: main() and start_consuming().                   *)
(*   idle     main() has built the consumer (line 125)                     *)
(*   check    at `while self.running` (line 33)                            *)
(*   poll     inside consumer.poll(timeout=1.0) (line 34)                  *)
(*   finally  at self._save_all_buffers() (line 52)                        *)
(*   close    at self.consumer.close() (line 53)                           *)
(*   unset    at self.running = False (line 54)                            *)
(*   returned start_consuming returned normally                            *)
(*   raised   start_consuming was left by an exception                     *)
(*   exit     main() has run its finally (line 132)                        *)
(***************************************************************************)
\* line 30
Start ==
    /\ pc = "idle"
    /\ running' = TRUE
    /\ pc' = "check"
    /\ last' = <<"start", "ok">>
    /\ UNCHANGED simvars
    /\ UNCHANGED <<data_buffer, key_order, files, calls, log, clock, polls, exc,
                   closed, accepted, sinceFlush, afterStop>>

\* line 33: the loop condition
LoopCheck ==
    /\ pc = "check"
    /\ pc' = IF running THEN "poll" ELSE "finally"
    /\ UNCHANGED simvars
    /\ UNCHANGED <<running, data_buffer, key_order, files, calls, log, clock,
                   polls, exc, closed, last, accepted, sinceFlush, afterStop>>

\* lines 34-37: poll times out and returns None
PollNone ==
    /\ pc = "poll"
    /\ pc' = "check"
    /\ log' = <<>>
    /\ last' = <<"poll", "none">>
    /\ UNCHANGED simvars
    /\ UNCHANGED <<running, data_buffer, key_order, files, calls, clock, polls,
                   exc, closed, accepted, sinceFlush, afterStop>>

\* PollEvent with an event treated as fatal: the loop is left
PollEvent_Fatal(kind) ==
    /\ pc = "poll"
    /\ polls < MaxPolls
    /\ polls' = polls + 1
    /\ pc' = "finally"
    /\ log' = <<kind>>
    /\ last' = <<"poll", kind>>
    /\ UNCHANGED simvars
    /\ UNCHANGED <<running, data_buffer, key_order, files, calls, clock, exc,
                   closed, accepted, sinceFlush, afterStop>>

\* lines 39-44: poll returns an end-of-partition event or a transport error
PollEvent(kind) ==
    /\ pc = "poll"
    /\ polls < MaxPolls
    /\ polls' = polls + 1
    /\ pc' = "check"
    /\ log' = <<kind>>
    /\ last' = <<"poll", kind>>
    /\ UNCHANGED simvars
    /\ UNCHANGED <<running, data_buffer, key_order, files, calls, clock, exc,
                   closed, accepted, sinceFlush, afterStop>>

PollEOF == PollEvent("partition_eof")

PollError == PollEvent("error")

\* line 34 raises (KafkaException, RuntimeError): not a KeyboardInterrupt, so
\* only the finally clause runs and the exception goes on to main()
PollRaises ==
    /\ pc = "poll"
    /\ polls < MaxPolls
    /\ polls' = polls + 1
    /\ pc' = "finally"
    /\ exc' = "poll"
    /\ log' = <<>>
    /\ last' = <<"poll", "raised">>
    /\ UNCHANGED simvars
    /\ UNCHANGED <<running, data_buffer, key_order, files, calls, clock, closed,
                   accepted, sinceFlush, afterStop>>

\* lines 45-47: poll returns a message and _process_message handles it
PollMessage ==
    /\ pc = "poll"
    /\ polls < MaxPolls
    /\ \E payload \in Payloads, bad \in Failures :
         LET msg == [value |-> payload, seq |-> polls + 1]
             s == process_message(Self, msg, clock, bad)
         IN  /\ Store(s)
             /\ Remember(msg, s.calls)
             /\ last' = <<"message", payload>>
    /\ polls' = polls + 1
    /\ pc' = "check"
    /\ afterStop' = IF running THEN afterStop ELSE afterStop + 1
    /\ UNCHANGED simvars
    /\ UNCHANGED <<running, clock, exc, closed>>

\* lines 49-50: Ctrl-C while the loop waits in poll or is between two polls
Interrupt ==
    /\ pc \in {"check", "poll"}
    /\ pc' = "finally"
    /\ log' = <<"stopped_by_user">>
    /\ last' = <<"interrupt", "ok">>
    /\ UNCHANGED simvars
    /\ UNCHANGED <<running, data_buffer, key_order, files, calls, clock, polls,
                   exc, closed, accepted, sinceFlush, afterStop>>

\* lines 105-107, called by another thread while the loop runs
StopConsuming ==
    /\ pc \in {"check", "poll"}
    /\ running
    /\ running' = FALSE
    /\ last' = <<"stop_consuming", "ok">>
    /\ UNCHANGED simvars
    /\ UNCHANGED <<pc, data_buffer, key_order, files, calls, log, clock, polls,
                   exc, closed, accepted, sinceFlush, afterStop>>

\* line 52: the final flush; an exception of to_csv leaves the finally clause
\* at once, so lines 53-54 do not run
FinalFlush ==
    /\ pc = "finally"
    /\ \E bad \in Failures :
         LET s == save_all_buffers(Self, clock, bad)
         IN  /\ Store(s)
             /\ RememberFlush(s.calls)
             /\ pc' = IF s.raised THEN "raised" ELSE "close"
             /\ exc' = IF ~s.raised THEN exc
                       ELSE IF exc = "poll" THEN "poll+persistence"
                       ELSE "persistence"
             /\ last' = <<"save_all_buffers", IF s.raised THEN "raised" ELSE "ok">>
    /\ UNCHANGED simvars
    /\ UNCHANGED <<running, clock, polls, closed, afterStop>>

\* line 53
Close ==
    /\ pc = "close"
    /\ closed' = closed + 1
    /\ pc' = "unset"
    /\ last' = <<"close", "ok">>
    /\ UNCHANGED simvars
    /\ UNCHANGED <<running, data_buffer, key_order, files, calls, log, clock,
                   polls, exc, accepted, sinceFlush, afterStop>>

\* line 54, then start_consuming returns, or re-raises what the loop raised
Unset ==
    /\ pc = "unset"
    /\ running' = FALSE
    /\ pc' = IF exc = "none" THEN "returned" ELSE "raised"
    /\ last' = <<"unset", "ok">>
    /\ UNCHANGED simvars
    /\ UNCHANGED <<data_buffer, key_order, files, calls, log, clock, polls, exc,
                   closed, accepted, sinceFlush, afterStop>>

\* lines 129-132: main()'s finally calls stop_consuming()
MainFinally ==
    /\ pc \in {"returned", "raised"}
    /\ running' = FALSE
    /\ pc' = "exit"
    /\ last' = <<"main_finally", "ok">>
    /\ UNCHANGED simvars
    /\ UNCHANGED <<data_buffer, key_order, files, calls, log, clock, polls, exc,
                   closed, accepted, sinceFlush, afterStop>>

Next ==
    \/ Start
    \/ LoopCheck
    \/ PollNone
    \/ PollEOF
    \/ PollError
    \/ PollRaises
    \/ PollMessage
    \/ Interrupt
    \/ StopConsuming
    \/ FinalFlush
    \/ Close
    \/ Unset
    \/ MainFinally
    \/ Tick

Spec == Init /\ [][Next]_vars

(***************************************************************************)
(* The Buffer Manager used directly: a caller (a unit test) invokes        *)
(* _process_message, _save_buffer and _save_all_buffers on a consumer      *)
(* whose poll loop is not running, in any order.                           *)
(***************************************************************************)
\* _process_message(msg), lines 56-80
CallProcessMessage ==
    /\ pc = "idle"
    /\ polls < MaxPolls
    /\ \E payload \in Payloads, bad \in Failures :
         LET msg == [value |-> payload, seq |-> polls + 1]
             s == process_message(Self, msg, clock, bad)
         IN  /\ Store(s)
             /\ Remember(msg, s.calls)
             /\ last' = <<"message", payload>>
    /\ polls' = polls + 1
    /\ UNCHANGED simvars
    /\ UNCHANGED <<pc, running, clock, exc, closed, afterStop>>

\* _save_buffer(equipment_id), lines 82-98, for a known or an unknown key
CallSaveBuffer ==
    /\ pc = "idle"
    /\ polls < MaxPolls
    /\ \E equipment_id \in EquipmentIds, bad \in Failures :
         LET s == save_buffer(Self, equipment_id, clock, bad, "direct")
         IN  /\ Store(s)
             /\ RememberFlush(s.calls)
             /\ last' = <<"save_buffer", IF s.raised THEN "raised" ELSE "ok",
                          equipment_id>>
    /\ polls' = polls + 1
    /\ UNCHANGED simvars
    /\ UNCHANGED <<pc, running, clock, exc, closed, afterStop>>

\* _save_all_buffers(), lines 100-103
CallSaveAllBuffers ==
    /\ pc = "idle"
    /\ polls < MaxPolls
    /\ \E bad \in Failures :
         LET s == save_all_buffers(Self, clock, bad)
         IN  /\ Store(s)
             /\ RememberFlush(s.calls)
             /\ last' = <<"save_all_buffers", IF s.raised THEN "raised" ELSE "ok">>
    /\ polls' = polls + 1
    /\ UNCHANGED simvars
    /\ UNCHANGED <<pc, running, clock, exc, closed, afterStop>>

NextBuffer ==
    \/ CallProcessMessage
    \/ CallSaveBuffer
    \/ CallSaveAllBuffers
    \/ Tick

SpecBuffer == Init /\ [][NextBuffer]_vars

(***************************************************************************)
(* Vocabulary of the properties.                                           *)
(***************************************************************************)
Range(seq) == {seq[i] : i \in 1..Len(seq)}

\* the accepted readings of key k, in arrival order
AcceptedFor(k) == SelectSeq(accepted, LAMBDA r : r.equipment_id = k)

\* the FlushRecords of key k, in the order they were produced
RecordsFor(k) == SelectSeq(calls, LAMBDA c : c.key = k)

RECURSIVE Concat(_)
Concat(recs) ==
    IF recs = <<>> THEN <<>> ELSE Head(recs).readings \o Concat(Tail(recs))

\* the last n elements of seq
LastN(seq, n) == SubSeq(seq, Len(seq) - n + 1, Len(seq))

\* the buffer of key k, empty when the key is unknown
BufferOf(k) == IF k \in DOMAIN data_buffer THEN data_buffer[k] ELSE <<>>

\* the Consumption Driver's lifecycle state at a control position
Lifecycle(p) ==
    IF p \in {"check", "poll"} THEN "RUNNING"
    ELSE IF p \in {"finally", "close", "unset"} THEN "STOPPING"
    ELSE "STOPPED"

\* start_consuming has ended without an exception
CleanShutdown == pc \in {"returned", "exit"} /\ exc = "none"

\* start_consuming has ended
Ended == pc \in {"returned", "raised", "exit"}

(***************************************************************************)
(* C1.  After any sequence of polled messages and a clean shutdown, every  *)
(* accepted reading has been handed to persistence in exactly one          *)
(* FlushRecord (by a size-triggered flush or by the shutdown flush-all,    *)
(* never both): none is missing, none appears twice.                       *)
(* Refuted: a size-triggered to_csv that raises leaves the readings in the *)
(* buffer (line 98 is skipped), so a later flush hands them over again.    *)
(***************************************************************************)
C1_ExactlyOneFlushRecord ==
    CleanShutdown =>
        \A n \in 1..Len(accepted) :
            Cardinality({i \in 1..Len(calls) :
                            accepted[n] \in Range(calls[i].readings)}) = 1

(***************************************************************************)
(* C2.  Persistence is append-only: after any sequence of flushes the      *)
(* store holds the readings of every flush that was performed, also when   *)
(* two flushes of one key carry the same timestamp label.                  *)
(* Refuted: the file name is key + label and to_csv replaces the file.     *)
(***************************************************************************)
C2_AppendOnly ==
    \A i \in 1..Len(calls) :
        calls[i].ok =>
            \A r \in Range(calls[i].readings) :
                \E f \in DOMAIN files : r \in Range(files[f])

(***************************************************************************)
(* C3.  Whenever the number of readings ingested for a key since the       *)
(* key's last flush reaches the capacity, that ingest makes exactly one    *)
(* persistence call, a size-triggered one for that key, whose FlushRecord  *)
(* holds exactly those readings in ingestion order; the buffers of the     *)
(* other keys are unchanged.  This includes readings ingested after an     *)
(* earlier flush-all.                                                      *)
(***************************************************************************)
C3_SizeTriggeredFlush ==
    [][\A k \in EquipmentIds :
          (/\ Len(accepted') = Len(accepted) + 1
           /\ accepted'[Len(accepted')].equipment_id = k
           /\ sinceFlush[k] + 1 = BufferSize)
          => /\ Len(calls') = Len(calls) + 1
             /\ SubSeq(calls', 1, Len(calls)) = calls
             /\ calls'[Len(calls')].key = k
             /\ calls'[Len(calls')].by = "size"
             /\ calls'[Len(calls')].readings = LastN(AcceptedFor(k)', BufferSize)
             /\ \A j \in DOMAIN data_buffer \ {k} :
                    j \in DOMAIN data_buffer' /\ data_buffer'[j] = data_buffer[j]
      ]_vars

\* a flush-all record of a key is followed by a size-triggered record of the
\* same key holding exactly BufferSize readings
C3_Witness ==
    \E i, j \in 1..Len(calls) :
        /\ i < j
        /\ calls[i].key = calls[j].key
        /\ calls[i].by = "all" /\ calls[i].ok
        /\ calls[j].by = "size"
        /\ Len(calls[j].readings) = BufferSize
        /\ Range(calls[i].readings) \cap Range(calls[j].readings) = {}

(***************************************************************************)
(* C4.  After fewer than capacity readings were ingested for a key, a      *)
(* flush-all produces exactly one FlushRecord for that key, holding        *)
(* exactly those readings in order, and leaves the key's buffer empty with *)
(* the key still in the map.                                               *)
(* Refuted: when to_csv raises for the key, or for a key visited before    *)
(* it, _save_all_buffers is left by the exception and the buffer keeps its *)
(* readings.                                                               *)
(***************************************************************************)
C4_FlushAllEmptiesPartialBuffer ==
    [][(last'[1] = "save_all_buffers" /\ polls' = polls + 1)
       => \A k \in DOMAIN data_buffer :
             (/\ Len(data_buffer[k]) > 0
              /\ Len(data_buffer[k]) < BufferSize
              /\ sinceFlush[k] = Len(data_buffer[k]))
             => /\ Cardinality({i \in (Len(calls) + 1)..Len(calls') :
                                   calls'[i].key = k}) = 1
                /\ \A i \in (Len(calls) + 1)..Len(calls') :
                       calls'[i].key = k => calls'[i].readings = data_buffer[k]
                /\ k \in DOMAIN data_buffer'
                /\ data_buffer'[k] = <<>>
      ]_vars

(***************************************************************************)
(* C5.  flush-all is idempotent: a second flush-all with no ingest in      *)
(* between, and a flush of a key whose buffer is empty or unknown, produce *)
(* no FlushRecord, call persistence zero times, raise no error and leave   *)
(* the buffer map unchanged.                                               *)
(* Refuted: a flush-all that was left by a to_csv exception kept its       *)
(* buffers, so the second flush-all calls persistence again.               *)
(***************************************************************************)
C5_FlushAllIdempotent ==
    [][/\ (last[1] = "save_all_buffers" /\ last'[1] = "save_all_buffers"
           /\ polls' = polls + 1)
          => (UNCHANGED <<data_buffer, key_order, files, calls>> /\ last'[2] = "ok")
       /\ (last'[1] = "save_buffer" /\ polls' = polls + 1
           /\ BufferOf(last'[3]) = <<>>)
          => (UNCHANGED <<data_buffer, key_order, files, calls>> /\ last'[2] = "ok")
      ]_vars

(***************************************************************************)
(* C6.  In every reachable state and for every key, the key's FlushRecords *)
(* concatenated in the order they were produced, followed by the key's     *)
(* buffer, are the key's accepted readings in arrival order.               *)
(* Refuted: after a size-triggered to_csv raised, the readings are in a    *)
(* FlushRecord and still in the buffer.                                    *)
(***************************************************************************)
C6_RecordsThenBufferIsArrivalOrder ==
    \A k \in EquipmentIds :
        Concat(RecordsFor(k)) \o BufferOf(k) = AcceptedFor(k)

(***************************************************************************)
(* C7.  A polled payload that cannot be decoded (invalid UTF-8, invalid    *)
(* JSON, JSON that is not an object) or that carries no equipment_id (or   *)
(* an empty one) is appended to no buffer, creates no key and triggers no  *)
(* flush; the driver stays RUNNING and goes back to the loop test.         *)
(***************************************************************************)
C7_UndecodableIsDiscarded ==
    [][(/\ pc = "poll"
        /\ polls' = polls + 1
        /\ last'[1] = "message"
        /\ ~Accepted(last'[2]))
       => /\ UNCHANGED <<data_buffer, key_order, files, calls, accepted>>
          /\ UNCHANGED <<running, exc, closed>>
          /\ pc' = "check"
      ]_vars

\* an object without equipment_id has just been handled while a reading of
\* an earlier message is buffered, and the loop goes on
C7_Witness ==
    /\ pc = "check"
    /\ running
    /\ last[1] = "message"
    /\ last[2].type = "object"
    /\ last[2].eid \in {None, ""}
    /\ \E k \in DOMAIN data_buffer : data_buffer[k] # <<>>

(***************************************************************************)
(* C8.  The lifecycle only follows STOPPED -> RUNNING -> STOPPING ->       *)
(* STOPPED; once shutdown has begun no further poll is issued, the adapter *)
(* is released only after the flush-all has emptied the buffers, and the   *)
(* driver is never stopped while a buffer is non-empty or the adapter is   *)
(* open.                                                                   *)
(* Refuted: a to_csv exception in the final flush ends start_consuming     *)
(* with readings still buffered and the consumer never closed.             *)
(***************************************************************************)
C8_LifecycleOrder ==
    [][/\ <<Lifecycle(pc), Lifecycle(pc')>> \in
              {<<"STOPPED", "STOPPED">>, <<"STOPPED", "RUNNING">>,
               <<"RUNNING", "RUNNING">>, <<"RUNNING", "STOPPING">>,
               <<"STOPPING", "STOPPING">>, <<"STOPPING", "STOPPED">>}
       /\ (Lifecycle(pc) # "RUNNING" => pc' # "poll" /\ polls' = polls)
       /\ (closed' # closed => \A k \in DOMAIN data_buffer : data_buffer[k] = <<>>)
       /\ ((Lifecycle(pc') = "STOPPED" /\ pc' # "idle")
           => /\ \A k \in DOMAIN data_buffer' : data_buffer'[k] = <<>>
              /\ closed' = 1)
      ]_vars

(***************************************************************************)
(* C9.  When shutdown is requested while the driver is RUNNING             *)
(* (stop_consuming from another thread, or an interrupt), the driver       *)
(* handles at most the message of the poll in progress and ends STOPPED    *)
(* with every buffer empty and no buffer flushed twice by the shutdown.    *)
(* Refuted: with a to_csv exception in the final flush the driver ends     *)
(* with non-empty buffers.                                                 *)
(***************************************************************************)
C9_ShutdownFlushesEverything ==
    (Ended /\ exc \in {"none", "persistence"})
    => /\ afterStop <= 1
       /\ \A k \in DOMAIN data_buffer : data_buffer[k] = <<>>
       /\ \A k \in EquipmentIds :
              Cardinality({i \in 1..Len(calls) :
                              calls[i].key = k /\ calls[i].by = "all"}) <= 1

(***************************************************************************)
(* C10.  On every path by which the poll loop ends (stop request,          *)
(* interrupt, exception in the loop, persistence failure in the final      *)
(* flush) the bus connection is closed exactly once, and not before the    *)
(* flush-all has finished.                                                 *)
(* Refuted: the to_csv exception leaves the finally clause before          *)
(* consumer.close(), and main() only calls stop_consuming().               *)
(***************************************************************************)
C10_ClosedExactlyOnce ==
    /\ (pc \in {"idle", "check", "poll", "finally"} => closed = 0)
    /\ (Ended => closed = 1)

(***************************************************************************)
(* C11.  When the persistence call of a size-triggered flush fails, the    *)
(* readings of that flush are lost and not retried: they leave the buffer  *)
(* and no later flush hands them to persistence again; the driver goes on  *)
(* polling.                                                                *)
(* Refuted: to_csv raises before line 98, _process_message swallows the    *)
(* exception, and the readings stay in the buffer for the next flush.      *)
(***************************************************************************)
C11_FailedSizeFlushIsDropped ==
    \A i \in 1..Len(calls) :
        (calls[i].by = "size" /\ ~calls[i].ok)
        => /\ Range(BufferOf(calls[i].key)) \cap Range(calls[i].readings) = {}
           /\ \A j \in (i + 1)..Len(calls) :
                  Range(calls[j].readings) \cap Range(calls[i].readings) = {}

(***************************************************************************)
(* C18.  A poll that returns no message, an end-of-partition marker or a   *)
(* transport error is not fatal: buffers and persisted data are unchanged, *)
(* the driver stays RUNNING and returns to the loop test; nothing is       *)
(* handled again.                                                          *)
(***************************************************************************)
C18_EmptyPollIsNotFatal ==
    [][(/\ pc = "poll"
        /\ pc' # "poll"
        /\ last'[1] = "poll"
        /\ last'[2] \in {"none", "partition_eof", "error"})
       => /\ UNCHANGED <<data_buffer, key_order, files, calls, accepted>>
          /\ UNCHANGED <<running, exc, closed>>
          /\ pc' = "check"
      ]_vars

\* a transport error has just been reported while a reading is buffered,
\* and the loop goes on
C18_Witness ==
    /\ pc = "check"
    /\ running
    /\ last = <<"poll", "error">>
    /\ \E k \in DOMAIN data_buffer : data_buffer[k] # <<>>

(***************************************************************************)
(* C19.  If persistence fails for one key during the shutdown flush-all,   *)
(* the driver does not throw: it still flushes every other non-empty       *)
(* buffer, releases the Subscriber Adapter and reaches STOPPED.            *)
(* Refuted: nothing catches the exception of to_csv at line 52; the keys   *)
(* after the failing one are not flushed and close() is skipped.           *)
(***************************************************************************)
C19_FinalFlushFailureIsSurvived ==
    (pc \in {"close", "unset", "returned", "raised", "exit"})
    => /\ exc \notin {"persistence", "poll+persistence"}
       /\ \A k \in DOMAIN data_buffer :
              data_buffer[k] # <<>>
              => \E i \in 1..Len(calls) :
                     calls[i].key = k /\ calls[i].by = "all" /\ ~calls[i].ok
       /\ (Ended => closed = 1)

(***************************************************************************)
(* C20.  Every message the consumer discards produces a log entry: a       *)
(* transport error, an undecodable payload, and a payload that decodes but *)
(* has no equipment identity are each logged before the driver continues.  *)
(* Refuted: when data.get('equipment_id') is falsy the if at line 66 is    *)
(* skipped and nothing is printed.                                         *)
(***************************************************************************)
C20_EveryDiscardIsLogged ==
    /\ (last[1] = "message" /\ ~Accepted(last[2])) => log # <<>>
    /\ (last = <<"poll", "error">>) => log = <<"error">>

(***************************************************************************)
(* The simulator: sensor_simulator.py and run_simulator.py.                *)
(*                                                                         *)
(* health_score and degradation_rate are Python floats (IEEE-754 binary64).*)
(* Every value they take here is a whole number of units of 2^-59 below    *)
(* 2^72, held as three limbs <<low, middle, high>> in base 2^24, and a     *)
(* subtraction is rounded to 53 significant bits, ties to even, as the     *)
(* hardware does.                                                          *)
(***************************************************************************)
\* base of one limb, 2^24
Limb == 16777216

\* significant bits of a binary64
Mantissa == 53

\* binary digits after the point in the unit of the limbs
UnitBits == 59

\* 0 (line 41) as a float
Zero == <<0, 0, 0>>

\* line 23: 100.0 = 204800 * 2^48 * 2^-59
InitialHealth == <<0, 0, 204800>>

\* the binary64 nearest to 0.01, to 0.03 and to 0.05
Rate001 == <<11408507, 8053063, 20>>

Rate003 == <<671088, 7381975, 61>>

Rate005 == <<6710888, 6710886, 102>>

\* line 24: random.uniform(0.01, 0.05), at its two ends and in between
Rates == {Rate001, Rate003, Rate005}

\* a < b
fless(a, b) ==
    \/ a[3] < b[3]
    \/ a[3] = b[3] /\ a[2] < b[2]
    \/ a[3] = b[3] /\ a[2] = b[2] /\ a[1] < b[1]

\* the exact difference a - b, for a >= b
fsub(a, b) ==
    LET b1 == IF a[1] < b[1] THEN 1 ELSE 0
        b2 == IF a[2] - b1 < b[2] THEN 1 ELSE 0
    IN  <<a[1] - b[1] + b1 * Limb,
          a[2] - b1 - b[2] + b2 * Limb,
          a[3] - b2 - b[3]>>

\* number of binary digits of one limb
bits(x) == CHOOSE n \in 0..24 : x < 2^n /\ (n = 0 \/ x >= 2^(n - 1))

\* number of binary digits of a
bit_length(a) ==
    IF a[3] > 0 THEN 48 + bits(a[3])
    ELSE IF a[2] > 0 THEN 24 + bits(a[2])
    ELSE bits(a[1])

\* the binary64 nearest to the exact value a, ties to even
round_binary64(a) ==
    LET q == bit_length(a) - Mantissa
    IN  IF q <= 0 THEN a
        ELSE LET p == 2^q
                 low == a[1] % p
                 up == \/ 2 * low > p
                       \/ 2 * low = p /\ (a[1] \div p) % 2 = 1
                 l1 == a[1] - low + (IF up THEN p ELSE 0)
                 l2 == a[2] + l1 \div Limb
             IN  <<l1 % Limb, l2 % Limb, a[3] + l2 \div Limb>>

\* the exact sum a + b
fadd(a, b) ==
    LET l1 == a[1] + b[1]
        l2 == a[2] + b[2] + l1 \div Limb
    IN  <<l1 % Limb, l2 % Limb, a[3] + b[3] + l2 \div Limb>>

\* lines 40-41 with the rate added instead of subtracted
degrade_Recovering(health_score, degradation_rate) ==
    round_binary64(fadd(health_score, degradation_rate))

\* lines 40-41: self.health_score -= self.degradation_rate, then
\* max(0, self.health_score); a negative difference gives 0
degrade(health_score, degradation_rate) ==
    IF fless(health_score, degradation_rate) THEN Zero
    ELSE round_binary64(fsub(health_score, degradation_rate))

\* health_score after n more calls of generate_sensor_reading
RECURSIVE degrade_times(_, _, _)
degrade_times(n, health_score, degradation_rate) ==
    IF n = 0 THEN health_score
    ELSE IF n = 1 THEN degrade(health_score, degradation_rate)
    ELSE LET half == degrade_times(n \div 2, health_score, degradation_rate)
         IN  IF half = Zero THEN Zero
             ELSE degrade_times(n - n \div 2, half, degradation_rate)

\* health_score after n calls of generate_sensor_reading on a new simulator
health_after(n, degradation_rate) ==
    degrade_times(n, InitialHealth, degradation_rate)

\* line 107: round(self.health_score, 2), in hundredths; the product with
\* 100 is exact, the quotient by 2^59 is rounded to the nearest, ties to even
round2(health_score) ==
    LET p1 == health_score[1] * 100
        p2 == health_score[2] * 100 + p1 \div Limb
        p3 == health_score[3] * 100 + p2 \div Limb
        scale == 2^(UnitBits - 48)
        whole == p3 \div scale
        rest == p3 % scale
        below == (p1 % Limb) + (p2 % Limb)
        up == \/ 2 * rest > scale
              \/ 2 * rest = scale /\ (below > 0 \/ whole % 2 = 1)
    IN  whole + (IF up THEN 1 ELSE 0)

(***************************************************************************)
(* The random source and the clock.                                        *)
(*                                                                         *)
(* A value of random.random() is kept in thousandths (0..999); every       *)
(* random.uniform and random.choice is computed from one such value.       *)
(* Channel values are kept in thousandths too.  An instant of              *)
(* datetime.now() is a whole number of hours since a Monday 00:00.         *)
(***************************************************************************)
\* values of random.random(), in thousandths
RawValues == {0, 5, 50, 500, 999}

\* the values one call of generate_sensor_reading may draw, in order: two
\* for each of the four channels (lines 114-115), one for the anomaly test
\* (line 87), one for the choice (line 89) and one for the excursion
DrawSeq(base, noise, p, c, m) ==
    <<base, noise, base, noise, base, noise, base, noise, p, c, m>>

Draws ==
    {DrawSeq(0, 999, 5, 0, 999), DrawSeq(999, 0, 5, 250, 0),
     DrawSeq(500, 500, 5, 500, 500), DrawSeq(0, 0, 5, 999, 999),
     DrawSeq(999, 999, 50, 0, 0), DrawSeq(500, 0, 500, 0, 0)}

\* instants of datetime.now(): Monday 06:00 and Saturday 18:00
Instants == {6, 138}

\* random.uniform(a, b) = a + (b - a) * random.random(), in thousandths
uniform(a, b, raw) == a + ((b - a) * raw) \div 1000

\* random.choice(seq)
choice(seq, raw) == seq[1 + (Len(seq) * raw) \div 1000]

\* 1000 * sin(pi * hour / 12), rounded
sin12(hour) ==
    LET quarter == <<0, 259, 500, 707, 866, 966, 1000>>
        h == hour % 12
        v == IF h <= 6 THEN quarter[h + 1] ELSE quarter[13 - h]
    IN  IF hour % 24 < 12 THEN v ELSE 0 - v

\* round(x, 2) of a value in thousandths, in hundredths (ties to even)
round_to_hundredths(x) ==
    LET whole == x \div 10
        rest == x % 10
    IN  whole + (IF rest > 5 \/ (rest = 5 /\ whole % 2 = 1) THEN 1 ELSE 0)

\* lines 112-116, in thousandths; base_multiplier is given in thousandths
generate_value(normal_range, base_multiplier, health_effect, noise_level, raw1, raw2) ==
    LET base_value == uniform(normal_range[1], normal_range[2], raw1)
    IN  (base_value * base_multiplier) \div 1000 + health_effect
        + uniform(0 - noise_level, noise_level, raw2)

\* lines 17-20, in thousandths
normal_temp_range == <<60000, 80000>>

normal_vibration_range == <<100, 500>>

normal_pressure_range == <<95000, 105000>>

normal_noise_range == <<60000, 75000>>

Sensors == <<"temperature", "vibration", "pressure", "noise_level">>

\* 10 as a float, in the unit of the limbs
Ten == <<0, 0, 20480>>

\* line 87 with the sign of the health term reversed
anomaly_probability_Falling(health_score) == fadd(Ten, health_score)

\* lines 55 and 87: 0.01 + ((100 - health_score) / 100) * 0.1, times 1000
\* and in the unit of the limbs, that is 10 + (100 - health_score); the
\* sum is exact, where the three float operations of the code round in the
\* 17th digit
anomaly_probability(health_score) ==
    fadd(Ten, fsub(InitialHealth, health_score))

\* line 87: random.random() < probability, for a value in thousandths
below(raw, probability) ==
    fless(<<0, 0, 2048 * raw>>, probability)

\* line 55: (100 - health_score) / 100, in ten-thousandths
health_factor_of(health_score) == 10000 - round2(health_score)

\* the health effects with the sign of the pressure term reversed
health_effects_AllRising(health_score) ==
    LET health_factor == health_factor_of(health_score)
    IN  [temperature |-> health_factor * 3,
         vibration |-> (health_factor * 15) \div 100,
         pressure |-> (health_factor * 15) \div 10,
         noise_level |-> (health_factor * 25) \div 10]

\* lines 61, 68, 75, 82: health_factor * 30, * 1.5, * -15 and * 25, in
\* thousandths
health_effects(health_score) ==
    LET health_factor == health_factor_of(health_score)
    IN  [temperature |-> health_factor * 3,
         vibration |-> (health_factor * 15) \div 100,
         pressure |-> 0 - (health_factor * 15) \div 10,
         noise_level |-> (health_factor * 25) \div 10]

\* apply_anomaly with the excursion of the pressure added
apply_anomaly_PressureRising(values, anomaly_sensor, raw) ==
    [values EXCEPT
         !.temperature = IF anomaly_sensor = "temperature"
                         THEN @ + uniform(10000, 30000, raw) ELSE @,
         !.vibration = IF anomaly_sensor = "vibration"
                       THEN @ + uniform(500, 2000, raw) ELSE @,
         !.pressure = IF anomaly_sensor = "pressure"
                      THEN @ + uniform(10000, 30000, raw) ELSE @,
         !.noise_level = IF anomaly_sensor = "noise_level"
                         THEN @ + uniform(10000, 20000, raw) ELSE @]

\* lines 90-97: the excursion of the chosen channel, in thousandths
apply_anomaly(values, anomaly_sensor, raw) ==
    [values EXCEPT
         !.temperature = IF anomaly_sensor = "temperature"
                         THEN @ + uniform(10000, 30000, raw) ELSE @,
         !.vibration = IF anomaly_sensor = "vibration"
                       THEN @ + uniform(500, 2000, raw) ELSE @,
         !.pressure = IF anomaly_sensor = "pressure"
                      THEN @ - uniform(10000, 30000, raw) ELSE @,
         !.noise_level = IF anomaly_sensor = "noise_level"
                         THEN @ + uniform(10000, 20000, raw) ELSE @]

\* lines 100-108: the reading, from the channel values in thousandths
reading_of(equipment_id, timestamp, values, health_score) ==
    [equipment_id |-> equipment_id,
     timestamp |-> timestamp,
     temperature |-> round_to_hundredths(values.temperature),
     vibration |-> values.vibration,
     pressure |-> round_to_hundredths(values.pressure),
     noise_level |-> round_to_hundredths(values.noise_level),
     health_score |-> round2(health_score)]

\* lines 34-110: one tick of a simulator.  raw are the next values of the
\* random source, t1 and t2 the two readings of the clock (lines 37, 44).
\* The result is the simulator afterwards, the reading returned, the number
\* of random values used, the channel the anomaly was applied to, and the
\* local values of the call.
generate_sensor_reading(self, raw, t1, t2) ==
    LET timestamp == t1
        health_score == degrade(self.health_score, self.degradation_rate)
        hour_of_day == t2 % 24
        day_of_week == (t2 \div 24) % 7
        time_factor == 1000 + (200 * sin12(hour_of_day)) \div 1000
        day_factor == 1000 + 100 * (IF day_of_week < 5 THEN 1 ELSE 0 - 1)
        effect == health_effects(health_score)
        sampled ==
            [temperature |->
                 generate_value(normal_temp_range, time_factor,
                                effect.temperature, 2000, raw[1], raw[2]),
             vibration |->
                 generate_value(normal_vibration_range, day_factor,
                                effect.vibration, 50, raw[3], raw[4]),
             pressure |->
                 generate_value(normal_pressure_range, 1000,
                                effect.pressure, 3000, raw[5], raw[6]),
             noise_level |->
                 generate_value(normal_noise_range, day_factor,
                                effect.noise_level, 2000, raw[7], raw[8])]
        probability == anomaly_probability(health_score)
        anomalous == below(raw[9], probability)
        anomaly_sensor == IF anomalous THEN choice(Sensors, raw[10])
                          ELSE "none"
        values == apply_anomaly(sampled, anomaly_sensor, raw[11])
    IN  [self |-> [self EXCEPT !.health_score = health_score],
         used |-> IF anomalous THEN 11 ELSE 9,
         anomaly |-> anomaly_sensor,
         reading |-> reading_of(self.equipment_id, timestamp, values,
                                health_score),
         locals |-> [hour_of_day |-> hour_of_day,
                     day_of_week |-> day_of_week,
                     effect |-> effect,
                     sampled |-> sampled,
                     probability |-> probability]]

\* lines 14-32: SensorSimulator(equipment_id, kafka_config); raw is the
\* value of the random source that line 24 draws
new_simulator(equipment_id, kafka_config, raw) ==
    [equipment_id |-> equipment_id,
     running |-> FALSE,
     health_score |-> InitialHealth,
     degradation_rate |-> IF raw < 333 THEN Rate001
                          ELSE IF raw < 666 THEN Rate003 ELSE Rate005,
     producer |-> kafka_config]

(***************************************************************************)
(* Direct use of one SensorSimulator: generate_sensor_reading() called     *)
(* again and again on a new object, as start_simulation does, with any     *)
(* values of the random source and of the clock.                           *)
(***************************************************************************)
\* calls of generate_sensor_reading explored on one simulator
MaxHealthTicks == 2002

InitHealth ==
    /\ Constructed
    /\ \E raw \in RawValues, kafka_config \in BOOLEAN :
           /\ simulators = <<new_simulator("EQUIP-001", kafka_config, raw)>>
           /\ kafka = kafka_config
    /\ threads = <<>>
    /\ mainpc = "direct"
    /\ rng = 0
    /\ emitted = <<>>
    /\ sent = <<>>
    /\ stopped = {}
    /\ ticks = 0

\* reading = self.generate_sensor_reading(), the reading discarded
CallGenerate ==
    /\ mainpc = "direct"
    /\ Len(simulators) = 1
    /\ ticks < MaxHealthTicks
    /\ \E raw \in Draws, t1 \in Instants, t2 \in Instants :
           /\ t1 <= t2
           /\ simulators' =
                  <<generate_sensor_reading(simulators[1], raw, t1, t2).self>>
    /\ ticks' = ticks + 1
    /\ UNCHANGED <<threads, mainpc, kafka, rng, emitted, sent, stopped>>
    /\ UNCHANGED <<pc, running, data_buffer, key_order, files, calls, log,
                   clock, polls, exc, closed, last, accepted, sinceFlush,
                   afterStop>>

NextHealth == CallGenerate

SpecHealth == InitHealth /\ [][NextHealth]_vars

(***************************************************************************)
(* C12.  For every generator and every sequence of ticks, the health score *)
(* after a tick is at most the one before it and is always within          *)
(* [0, 100]; a tick changes nothing of the generator but the health score: *)
(* the identity and the degradation rate drawn at creation stay as they    *)
(* were.                                                                   *)
(***************************************************************************)
C12_HealthNonIncreasingAndBounded ==
    [][\A i \in DOMAIN simulators :
           LET before == simulators[i]
               after == simulators'[i]
           IN  /\ ~fless(before.health_score, after.health_score)
               /\ ~fless(InitialHealth, before.health_score)
               /\ ~fless(InitialHealth, after.health_score)
               /\ \A f \in 1..3 : after.health_score[f] \in 0..(Limb - 1)
               /\ after = [before EXCEPT !.health_score = after.health_score]
      ]_vars

\* a generator of rate 0.05 whose health has been clamped at the floor
C12_Witness ==
    /\ ticks > 0
    /\ simulators[1].health_score = Zero
    /\ simulators[1].degradation_rate = Rate005

(***************************************************************************)
(* C13.  Health is clamped at a terminal floor: a generator started at     *)
(* health 100 with degradation rate 0.05 has health 0 after 2000 ticks,    *)
(* and once health is 0 every later tick leaves it at exactly 0.           *)
(* Refuted: 0.05 is not a binary fraction and the 2000 rounded             *)
(* subtractions leave 2043176 * 2^-59 (3.5e-12); health is 0 only from     *)
(* tick 2001 on.                                                           *)
(***************************************************************************)
C13_TerminalFloor ==
    [][\A i \in DOMAIN simulators :
           /\ (/\ simulators[i].degradation_rate = Rate005
               /\ ticks' >= 2000)
              => simulators'[i].health_score = Zero
           /\ simulators[i].health_score = Zero
              => simulators'[i].health_score = Zero
      ]_vars

(***************************************************************************)
(* Two simulators used side by side: both are created with the same        *)
(* identity and the same degradation rate, have made the same number of    *)
(* ticks, and are then given the same values of the random source, each    *)
(* at its own time of day.                                                 *)
(***************************************************************************)
\* ticks explored on each of the two simulators
MaxTwinTicks == 1

\* numbers of earlier ticks of the two simulators
EarlierTicks == {0, 1000, 2001}

InitTwins ==
    /\ Constructed
    /\ \E raw \in RawValues, kafka_config \in BOOLEAN, n \in EarlierTicks :
           LET new == new_simulator("EQUIP-001", kafka_config, raw)
               old == [new EXCEPT
                           !.health_score =
                               health_after(n, new.degradation_rate)]
           IN  /\ simulators = <<old, old>>
               /\ kafka = kafka_config
    /\ threads = <<>>
    /\ mainpc = "direct"
    /\ rng = 0
    /\ emitted = <<<<>>, <<>>>>
    /\ sent = <<>>
    /\ stopped = {}
    /\ ticks = 0

\* generate_sensor_reading() on both simulators, with the same values of
\* the random source
CallGenerateTwins ==
    /\ mainpc = "direct"
    /\ Len(simulators) = 2
    /\ ticks < MaxTwinTicks
    /\ \E raw \in Draws, t1 \in Instants, t2 \in Instants,
          u1 \in Instants, u2 \in Instants :
           LET one == generate_sensor_reading(simulators[1], raw, t1, t2)
               two == generate_sensor_reading(simulators[2], raw, u1, u2)
           IN  /\ t1 <= t2
               /\ u1 <= u2
               /\ simulators' = <<one.self, two.self>>
               /\ emitted' = <<Append(emitted[1], one.reading),
                               Append(emitted[2], two.reading)>>
    /\ ticks' = ticks + 1
    /\ UNCHANGED <<threads, mainpc, kafka, rng, sent, stopped>>
    /\ UNCHANGED <<pc, running, data_buffer, key_order, files, calls, log,
                   clock, polls, exc, closed, last, accepted, sinceFlush,
                   afterStop>>

NextTwins == CallGenerateTwins

SpecTwins == InitTwins /\ [][NextTwins]_vars

\* the channel values and the health snapshot of a reading
Channels(reading) ==
    <<reading.temperature, reading.vibration, reading.pressure,
      reading.noise_level, reading.health_score>>

(***************************************************************************)
(* C14.  tick() is deterministic: two generators with the same identity,   *)
(* health score and degradation rate that are given the same values of     *)
(* the random source return the same channel values and health snapshot    *)
(* and end in the same state; the result depends on nothing else.          *)
(* Refuted: the multipliers of lines 49 and 52 come from datetime.now(),   *)
(* so the channel values depend on the hour and the weekday of the call.   *)
(***************************************************************************)
C14_TickIsDeterministic ==
    (Len(simulators) = 2 /\ Len(emitted) = 2 /\ mainpc = "direct")
    => /\ simulators[1] = simulators[2]
       /\ \A n \in DOMAIN emitted[1] :
              Channels(emitted[1][n]) = Channels(emitted[2][n])

(***************************************************************************)
(* The simulator process: run_simulator.main() and one daemon thread per   *)
(* simulator running start_simulation().                                   *)
(*                                                                         *)
(* mainpc:                                                                 *)
(*   create    at SensorSimulator(...) (line 27)                           *)
(*   thread    simulator appended (line 28), its thread not yet started    *)
(*   join      in thread.join() (lines 45-46)                              *)
(*   stopping  in the except clause (lines 48-51)                          *)
(*   exited    main() has returned and the interpreter has exited          *)
(* threads[i]:                                                             *)
(*   start     started (line 39), before self.running = True (line 135)    *)
(*   loop      at `while self.running` (line 141)                          *)
(*   generate  at self.generate_sensor_reading() (line 145)                *)
(*   publish   at the publish of the reading (lines 148-149)               *)
(*   sleep     in time.sleep(interval) (line 151)                          *)
(*   finally   at self.running = False (line 155)                          *)
(*   flush     at self.producer.flush() (lines 156-157)                    *)
(*   done      start_simulation has returned                               *)
(*   killed    a daemon thread ended by the exit of the interpreter        *)
(***************************************************************************)
\* readings explored in one run of the process, all simulators together
MaxReadings == 2

\* args.equipment (line 7)
NumEquipment == 2

\* line 27: f"EQUIP-{i:03d}"
EquipmentName(i) == <<"EQUIP-001", "EQUIP-002", "EQUIP-003">>[i]

\* the n-th value the random module yields in this process (the stream is
\* fixed by the seed, whoever draws from it)
Stream(n) == <<500, 0, 999, 5, 50>>[(n % 5) + 1]

\* the next values of the stream after n values have been drawn
Upcoming(n) == [j \in 1..11 |-> Stream(n + j)]

InitSim ==
    /\ Constructed
    /\ simulators = <<>>
    /\ threads = <<>>
    /\ mainpc = "create"
    /\ kafka \in BOOLEAN
    /\ rng = 0
    /\ emitted = <<>>
    /\ sent = <<>>
    /\ stopped = {}
    /\ ticks = 0

\* the consumer is not part of this process
NoConsumer ==
    UNCHANGED <<pc, running, data_buffer, key_order, files, calls, log, clock,
                polls, exc, closed, last, accepted, sinceFlush, afterStop>>

\* run_simulator.py lines 27-28
Create ==
    /\ mainpc = "create"
    /\ LET i == Len(simulators) + 1
           kafka_config == kafka
       IN  simulators' =
               Append(simulators,
                      new_simulator(EquipmentName(i), kafka_config,
                                    Stream(rng + 1)))
    /\ rng' = rng + 1
    /\ emitted' = Append(emitted, <<>>)
    /\ sent' = Append(sent, <<>>)
    /\ mainpc' = "thread"
    /\ UNCHANGED <<threads, kafka, stopped, ticks>>
    /\ NoConsumer

\* run_simulator.py lines 30-39, and the end of the for loop
StartThread ==
    /\ mainpc = "thread"
    /\ threads' = Append(threads, "start")
    /\ mainpc' = IF Len(simulators) = NumEquipment THEN "join" ELSE "create"
    /\ UNCHANGED <<simulators, kafka, rng, emitted, sent, stopped, ticks>>
    /\ NoConsumer

\* Ctrl-C: KeyboardInterrupt is raised in the main thread, inside the try
\* (lines 25-46); thread.join() returns in no other way, the loops of the
\* threads being endless before a stop
KeyboardInterrupt ==
    /\ mainpc \in {"create", "thread", "join"}
    /\ mainpc' = "stopping"
    /\ UNCHANGED <<simulators, threads, kafka, rng, emitted, sent, stopped,
                   ticks>>
    /\ NoConsumer

\* sensor_simulator.py lines 160-162, called at run_simulator.py line 51
\* for the next simulator of the list
stop_simulation ==
    /\ mainpc = "stopping"
    /\ \E i \in DOMAIN simulators :
           /\ i \notin stopped
           /\ \A j \in 1..(i - 1) : j \in stopped
           /\ simulators' = [simulators EXCEPT ![i].running = FALSE]
           /\ stopped' = stopped \cup {i}
    /\ UNCHANGED <<threads, mainpc, kafka, rng, emitted, sent, ticks>>
    /\ NoConsumer

\* main() returns after the loop of line 50 and the interpreter exits:
\* the daemon threads (line 38) that still run are ended where they are
MainReturns ==
    /\ mainpc = "stopping"
    /\ stopped = DOMAIN simulators
    /\ mainpc' = "exited"
    /\ threads' = [i \in DOMAIN threads |->
                       IF threads[i] = "done" THEN "done" ELSE "killed"]
    /\ UNCHANGED <<simulators, kafka, rng, emitted, sent, stopped, ticks>>
    /\ NoConsumer

\* thread i moves to position to
Goto(i, from, to) ==
    /\ mainpc # "exited"
    /\ i \in DOMAIN threads
    /\ threads[i] = from
    /\ threads' = [threads EXCEPT ![i] = to]

\* line 135
SetRunning(i) ==
    /\ Goto(i, "start", "loop")
    /\ simulators' = [simulators EXCEPT ![i].running = TRUE]
    /\ UNCHANGED <<mainpc, kafka, rng, emitted, sent, stopped, ticks>>
    /\ NoConsumer

\* line 141 (duration is None)
WhileRunning(i) ==
    /\ i \in DOMAIN threads
    /\ Goto(i, "loop", IF simulators[i].running THEN "generate" ELSE "finally")
    /\ UNCHANGED <<simulators, mainpc, kafka, rng, emitted, sent, stopped,
                   ticks>>
    /\ NoConsumer

\* line 145: the values come from the one random source of the process
Generate(i) ==
    /\ Goto(i, "generate", "publish")
    /\ ticks < MaxReadings
    /\ \E t1 \in Instants, t2 \in Instants :
           LET tick == generate_sensor_reading(simulators[i], Upcoming(rng),
                                               t1, t2)
           IN  /\ t1 <= t2
               /\ simulators' = [simulators EXCEPT ![i] = tick.self]
               /\ rng' = rng + tick.used
               /\ emitted' =
                      [emitted EXCEPT
                           ![i] = Append(@, [reading |-> tick.reading,
                                             at |-> t2,
                                             late |-> i \in stopped])]
    /\ ticks' = ticks + 1
    /\ UNCHANGED <<mainpc, kafka, sent, stopped>>
    /\ NoConsumer

\* send_to_kafka with the client id of the configuration as key
send_to_kafka_SharedKey(self, reading, ok) ==
    IF self.producer
    THEN [result |-> ok,
          produced |-> <<[key |-> "sensor-simulator", value |-> reading,
                          ok |-> ok]>>]
    ELSE [result |-> FALSE, produced |-> <<>>]

\* send_to_kafka that produces the reading a second time after a failure
send_to_kafka_Retrying(self, reading, ok) ==
    LET record == [key |-> self.equipment_id, value |-> reading, ok |-> ok]
    IN  IF self.producer
        THEN [result |-> ok,
              produced |-> IF ok THEN <<record>> ELSE <<record, record>>]
        ELSE [result |-> FALSE, produced |-> <<>>]

\* lines 118-132: send_to_kafka(reading); produce or flush may raise, which
\* is caught and reported by the return value
send_to_kafka(self, reading, ok) ==
    IF self.producer
    THEN [result |-> ok,
          produced |-> <<[key |-> self.equipment_id, value |-> reading,
                          ok |-> ok]>>]
    ELSE [result |-> FALSE, produced |-> <<>>]

\* lines 148-149
Publish(i) ==
    /\ Goto(i, "publish", "sleep")
    /\ \E ok \in BOOLEAN :
           LET reading == emitted[i][Len(emitted[i])].reading
               kafka_enabled == kafka
           IN  sent' = [sent EXCEPT
                            ![i] = IF kafka_enabled /\ simulators[i].producer
                                   THEN @ \o send_to_kafka(simulators[i],
                                                           reading, ok).produced
                                   ELSE @]
    /\ UNCHANGED <<simulators, mainpc, kafka, rng, emitted, stopped, ticks>>
    /\ NoConsumer

\* line 151
Sleep(i) ==
    /\ Goto(i, "sleep", "loop")
    /\ UNCHANGED <<simulators, mainpc, kafka, rng, emitted, sent, stopped,
                   ticks>>
    /\ NoConsumer

\* line 155
Finally(i) ==
    /\ Goto(i, "finally", "flush")
    /\ simulators' = [simulators EXCEPT ![i].running = FALSE]
    /\ UNCHANGED <<mainpc, kafka, rng, emitted, sent, stopped, ticks>>
    /\ NoConsumer

\* lines 156-157: the final producer.flush(), then start_simulation returns
Flush(i) ==
    /\ Goto(i, "flush", "done")
    /\ UNCHANGED <<simulators, mainpc, kafka, rng, emitted, sent, stopped,
                   ticks>>
    /\ NoConsumer

Units == 1..NumEquipment

NextSim ==
    \/ Create
    \/ StartThread
    \/ KeyboardInterrupt
    \/ stop_simulation
    \/ MainReturns
    \/ \E i \in Units : SetRunning(i)
    \/ \E i \in Units : WhileRunning(i)
    \/ \E i \in Units : Generate(i)
    \/ \E i \in Units : Publish(i)
    \/ \E i \in Units : Sleep(i)
    \/ \E i \in Units : Finally(i)
    \/ \E i \in Units : Flush(i)

SpecSim == InitSim /\ [][NextSim]_vars

(***************************************************************************)
(* C15.  Under every interleaving of the driver's stop request with the    *)
(* unit threads, also when the stop is issued right after a thread has     *)
(* been started, every unit observes the stop: its running flag stays      *)
(* cleared from the request on, and it generates at most one further       *)
(* reading after the request.                                              *)
(* Refuted: stop_simulation() may run before the thread has executed       *)
(* self.running = True (line 135), which then overwrites the request.      *)
(***************************************************************************)
C15_StopIsObserved ==
    \A i \in stopped :
        /\ ~simulators[i].running
        /\ Cardinality({n \in DOMAIN emitted[i] : emitted[i][n].late}) <= 1

(***************************************************************************)
(* C16.  After a stop request the Simulation Driver does not return until  *)
(* every producer unit has terminated: when main() has returned, every     *)
(* thread has left start_simulation, none was cut off between generating   *)
(* a reading and the end of its publish, and each final producer flush     *)
(* has completed.                                                          *)
(* Refuted: the except clause only calls stop_simulation(); nothing joins  *)
(* the daemon threads, which die with the interpreter.                     *)
(***************************************************************************)
C16_GracefulJoin ==
    mainpc = "exited" => \A i \in DOMAIN threads : threads[i] = "done"

\* simulator i and the random source after the first n readings of i, had
\* no other unit drawn from the source since all simulators were created;
\* the clock readings are those of the run
RECURSIVE Alone(_, _)
Alone(i, n) ==
    IF n = 0
    THEN [self |-> new_simulator(EquipmentName(i), kafka, Stream(i)),
          rng |-> NumEquipment]
    ELSE LET prev == Alone(i, n - 1)
             tick == generate_sensor_reading(prev.self, Upcoming(prev.rng),
                                             emitted[i][n].reading.timestamp,
                                             emitted[i][n].at)
         IN  [self |-> tick.self, rng |-> prev.rng + tick.used,
              reading |-> tick.reading]

(***************************************************************************)
(* C17.  Producer units share no mutable state other than the cancellation *)
(* signal, so the readings and the health trajectory of one unit are the   *)
(* same under every interleaving with the other units: they are the ones   *)
(* the unit produces when no other unit takes a step in between.           *)
(* Refuted: every unit draws from the one module-level random source       *)
(* (lines 24, 87-97, 114-115), whose state each draw advances.             *)
(***************************************************************************)
C17_UnitsAreIndependent ==
    \A i \in DOMAIN simulators :
        /\ simulators[i].degradation_rate = Alone(i, 0).self.degradation_rate
        /\ simulators[i].health_score
               = Alone(i, Len(emitted[i])).self.health_score
        /\ \A n \in DOMAIN emitted[i] :
               emitted[i][n].reading = Alone(i, n).reading

(***************************************************************************)
(* C27.  Whenever the consumer is between two messages, every buffer holds *)
(* fewer than C readings; no buffer ever grows beyond C, whatever the      *)
(* outcomes of earlier persistence calls.                                  *)
(* Refuted with C11: a flush whose to_csv raises leaves the C readings in  *)
(* the buffer, and the next reading of the key makes it C + 1.             *)
(***************************************************************************)
C27_BufferBelowCapacity ==
    \A k \in DOMAIN data_buffer : Len(data_buffer[k]) < BufferSize

\* the FlushRecords a step adds
NewCalls == SubSeq(calls', Len(calls) + 1, Len(calls'))

(***************************************************************************)
(* C28.  Every FlushRecord handed to persistence is non-empty and holds    *)
(* only readings whose equipment_id is the record's key; flush-all makes   *)
(* no persistence call for a key whose buffer is empty.                    *)
(***************************************************************************)
C28_RecordsAreNonEmptyAndOfOneKey ==
    [][\A j \in DOMAIN NewCalls :
           LET rec == NewCalls[j]
           IN  /\ rec.readings # <<>>
               /\ \A n \in DOMAIN rec.readings :
                      rec.readings[n].equipment_id = rec.key
               /\ rec.by = "all" => BufferOf(rec.key) # <<>>
      ]_vars

\* both keys are known, one was emptied by a size-triggered flush, and a
\* flush-all has then made one call, for the other key only
C28_Witness ==
    /\ last = <<"save_all_buffers", "ok">>
    /\ Len(key_order) = 2
    /\ Cardinality({i \in DOMAIN calls : calls[i].by = "all"}) = 1
    /\ \E i \in DOMAIN calls : calls[i].by = "size" /\ calls[i].ok

\* the keys of seq, each once, in the order of their first reading
RECURSIVE FirstArrivals(_)
FirstArrivals(seq) ==
    IF seq = <<>> THEN <<>>
    ELSE LET before == FirstArrivals(SubSeq(seq, 1, Len(seq) - 1))
             k == seq[Len(seq)].equipment_id
         IN  IF k \in Range(before) THEN before ELSE Append(before, k)

\* seq is an initial part of other
IsPrefix(seq, other) ==
    Len(seq) <= Len(other) /\ seq = SubSeq(other, 1, Len(seq))

(***************************************************************************)
(* C29.  Flush-all visits the keys in a deterministic order: the           *)
(* FlushRecords of one flush-all are fixed by the readings ingested before *)
(* it.  They are those of the keys with a non-empty buffer, in the order   *)
(* in which the keys first arrived, each with the whole buffer of its key, *)
(* up to the first key whose persistence call raises.                      *)
(***************************************************************************)
C29_FlushAllOrderIsArrivalOrder ==
    [][(polls' = polls + 1 /\ last'[1] = "save_all_buffers")
       => LET due == SelectSeq(FirstArrivals(accepted),
                               LAMBDA k : BufferOf(k) # <<>>)
              keys == [j \in DOMAIN NewCalls |-> NewCalls[j].key]
          IN  /\ IsPrefix(keys, due)
              /\ last'[2] = "ok" => keys = due
              /\ \A j \in DOMAIN NewCalls :
                     /\ NewCalls[j].readings = data_buffer[keys[j]]
                     /\ NewCalls[j].ok \/ j = Len(NewCalls)
      ]_vars

\* a flush-all has written two records, for EQ-2 and then EQ-1: the order
\* of arrival, not the order of the names
C29_Witness ==
    /\ last = <<"save_all_buffers", "ok">>
    /\ Len(calls) >= 2
    /\ LET n == Len(calls)
       IN  /\ calls[n - 1].by = "all" /\ calls[n - 1].key = "EQ-2"
           /\ calls[n].by = "all" /\ calls[n].key = "EQ-1"
           /\ calls[n].label = calls[n - 1].label

(***************************************************************************)
(* One call of generate_sensor_reading() looked at from inside: the        *)
(* simulator has made some ticks before, the call is given any of the      *)
(* values below, and what it was given, what it computed and what it       *)
(* returned are kept.                                                      *)
(***************************************************************************)
\* numbers of earlier ticks of the simulator
TickSamples == {0, 1000, 1999, 2000, 2001}

\* values of the random source given to the call
TickDraws ==
    {DrawSeq(b, n, p, c, m) : b \in {0, 999}, n \in {0, 999},
                              p \in RawValues, c \in {0, 250, 500, 750},
                              m \in {0, 999}}

InitTick ==
    /\ Constructed
    /\ \E raw \in RawValues, kafka_config \in BOOLEAN, n \in TickSamples :
           LET new == new_simulator("EQUIP-001", kafka_config, raw)
           IN  /\ simulators =
                      <<[new EXCEPT
                             !.health_score =
                                 health_after(n, new.degradation_rate)]>>
               /\ kafka = kafka_config
    /\ threads = <<>>
    /\ mainpc = "direct"
    /\ rng = 0
    /\ emitted = <<<<>>>>
    /\ sent = <<>>
    /\ stopped = {}
    /\ ticks = 0

\* reading = self.generate_sensor_reading()
CallTick ==
    /\ mainpc = "direct"
    /\ Len(simulators) = 1
    /\ ticks = 0
    /\ \E raw \in TickDraws, t1 \in Instants, t2 \in Instants :
           LET tick == generate_sensor_reading(simulators[1], raw, t1, t2)
           IN  /\ t1 <= t2
               /\ simulators' = <<tick.self>>
               /\ emitted' = <<<<[reading |-> tick.reading,
                                  anomaly |-> tick.anomaly,
                                  locals |-> tick.locals,
                                  before |-> simulators[1],
                                  raw |-> raw]>>>>
    /\ ticks' = ticks + 1
    /\ UNCHANGED <<threads, mainpc, kafka, rng, sent, stopped>>
    /\ NoConsumer

NextTick == CallTick

SpecTick == InitTick /\ [][NextTick]_vars

\* the call made, once it has been made
Called == ticks = 1 /\ Len(emitted) = 1 /\ Len(emitted[1]) = 1

TheCall == emitted[1][1]

(***************************************************************************)
(* C21.  Every reading is built from one snapshot: its health_score field  *)
(* and the health effects of its four channels use the health value after  *)
(* the decrement, and the hour of day and the weekday that drive the       *)
(* multipliers are those of the instant in the reading's timestamp field,  *)
(* whatever time passes during the tick.                                   *)
(* Refuted: the timestamp is taken at line 37 and the hour and weekday     *)
(* from a second datetime.now() at line 44.                                *)
(***************************************************************************)
C21_OneSnapshot ==
    Called
    => /\ TheCall.reading.health_score = round2(simulators[1].health_score)
       /\ TheCall.locals.effect = health_effects(simulators[1].health_score)
       /\ TheCall.locals.hour_of_day = TheCall.reading.timestamp % 24
       /\ TheCall.locals.day_of_week
              = (TheCall.reading.timestamp \div 24) % 7

\* the channels of a reading
ChannelNames == {"temperature", "vibration", "pressure", "noise_level"}

\* the reading the call would have returned without an excursion
Unexcursed ==
    reading_of(TheCall.before.equipment_id, TheCall.reading.timestamp,
               TheCall.locals.sampled, simulators[1].health_score)

(***************************************************************************)
(* C22.  In one tick at most one of the four channels receives an outlier  *)
(* excursion, and the excursion moves that channel in its worsening        *)
(* direction: temperature, vibration and noise are increased, pressure is  *)
(* decreased; the other three channels keep their sampled values.          *)
(***************************************************************************)
C22_OneWorseningExcursion ==
    Called
    => /\ Cardinality({c \in ChannelNames :
                           TheCall.reading[c] # Unexcursed[c]}) <= 1
       /\ \A c \in ChannelNames :
              IF c # TheCall.anomaly
              THEN TheCall.reading[c] = Unexcursed[c]
              ELSE IF c = "pressure"
                   THEN TheCall.reading[c] < Unexcursed[c]
                   ELSE TheCall.reading[c] > Unexcursed[c]

\* a tick whose excursion lowered the pressure
C22_Witness ==
    /\ Called
    /\ TheCall.anomaly = "pressure"
    /\ TheCall.reading.pressure < Unexcursed.pressure
    /\ TheCall.reading.temperature = Unexcursed.temperature

C24_HealthEffects ==
    /\ \A c \in ChannelNames : health_effects(InitialHealth)[c] = 0
    /\ Called
       => LET old == health_effects(TheCall.before.health_score)
              new == TheCall.locals.effect
          IN  /\ new = health_effects(simulators[1].health_score)
              /\ \A c \in ChannelNames \ {"pressure"} :
                     new[c] >= 0 /\ new[c] >= old[c]
              /\ new.pressure <= 0 /\ new.pressure <= old.pressure

\* a tick whose effects have their signs and whose vibration effect is
\* larger than the one at the health before the tick
C24_Witness ==
    /\ Called
    /\ TheCall.locals.effect.temperature > 0
    /\ TheCall.locals.effect.pressure < 0
    /\ TheCall.locals.effect.vibration
           > health_effects(TheCall.before.health_score).vibration

(***************************************************************************)
(* C25.  Each producer unit repeats generate, publish, sleep in that       *)
(* order: every generated reading is handed to the publisher at most once, *)
(* before the next reading is generated, under the unit's own equipment    *)
(* identity as key, so what a unit has published is what it has generated, *)
(* in generation order, but for a reading whose publish is still to come;  *)
(* when publishing is disabled or no producer exists, nothing is           *)
(* published.                                                              *)
(***************************************************************************)
C25_PublishedInGenerationOrder ==
    \A i \in DOMAIN sent :
        /\ Len(sent[i]) <= Len(emitted[i])
        /\ \A n \in DOMAIN sent[i] :
               /\ sent[i][n].value = emitted[i][n].reading
               /\ sent[i][n].key = simulators[i].equipment_id
               /\ sent[i][n].key = sent[i][n].value.equipment_id
        /\ (kafka /\ simulators[i].producer)
           => /\ Len(sent[i]) >= Len(emitted[i]) - 1
              /\ (i \in DOMAIN threads
                  /\ threads[i] \in {"loop", "generate", "sleep"})
                 => Len(sent[i]) = Len(emitted[i])
        /\ ~(kafka /\ simulators[i].producer) => sent[i] = <<>>

\* a unit has generated two readings and published both, in that order
C25_Witness ==
    \E i \in DOMAIN sent :
        /\ Len(sent[i]) = 2
        /\ Len(emitted[i]) = 2
        /\ sent[i][1].value # sent[i][2].value
        /\ threads[i] = "sleep"

\* what a step hands to produce() for simulator i
NewSent(i) == SubSeq(sent'[i], Len(sent[i]) + 1, Len(sent'[i]))

(***************************************************************************)
(* C26.  A failed publish never stops a producer unit: when the bus        *)
(* rejects a reading, send_to_kafka reports the failure by its return      *)
(* value, the health state of the unit is unchanged by the failure, the    *)
(* reading is not sent again, and the unit goes on to its sleep and its    *)
(* next tick.                                                              *)
(***************************************************************************)
C26_FailedPublishIsSurvived ==
    [][\A i \in DOMAIN sent :
           (\E n \in DOMAIN NewSent(i) : ~NewSent(i)[n].ok)
           => /\ Len(NewSent(i)) = 1
              /\ NewSent(i)[1].value = emitted[i][Len(emitted[i])].reading
              /\ ~send_to_kafka(simulators[i], NewSent(i)[1].value,
                                FALSE).result
              /\ simulators' = simulators
              /\ emitted' = emitted
              /\ threads[i] = "publish"
              /\ threads'[i] = "sleep"
      ]_vars

\* a unit whose first publish failed has generated and published its next
\* reading
C26_Witness ==
    \E i \in DOMAIN sent :
        /\ Len(sent[i]) = 2
        /\ ~sent[i][1].ok
        /\ sent[i][2].ok
        /\ sent[i][2].value = emitted[i][2].reading
        /\ simulators[i].running

=============================================================================
